---------------------------- MODULE Spec2Model ----------------------------
(***************************************************************************)
(* A model of the Ory proxy command (package proxy): the request handler   *)
(* built by checkOry together with the HSTS middleware of run, the         *)
(* response rewriting of the identity-provider reverse proxy, the          *)
(* certificate release function of createTLSCertificate, and the           *)
(* start-up / graceful shutdown sequence of run.                           *)
(*                                                                         *)
(* The specifications share the variables:                                 *)
(*   Spec      one connection's request/response exchanges through the     *)
(*             middleware chain, while the server is serving;              *)
(*   FairSpec  Spec, with every attempt of a session check ending;         *)
(*   RewriteSpec  the identity-provider pass-through with every modelled   *)
(*             upstream response (ModifyResponse);                         *)
(*   CertSpec  createTLSCertificate and repeated calls of the release      *)
(*             function it returns;                                        *)
(*   LifeSpec  run: start-up, concurrent in-flight requests, the shutdown  *)
(*             signal, server.Shutdown and cleanup.                        *)
(*                                                                         *)
(* Strings the code inspects character by character (URL paths) are        *)
(* sequences of tokens; "/" and ".ory" are tokens of their own, so that    *)
(* the prefix "/.ory" and the segment "/.ory/" match exactly where they    *)
(* match in the Go strings.                                                *)
(***************************************************************************)
EXTENDS Integers, Sequences, FiniteSets, TLC

VARIABLES
    \* ---- Spec: one exchange through mw (run, lines 96-103) ----
    phase,      \* "idle" | "session" | "ory" | "app" | "done"
    inbound,    \* the request as received
    r,          \* the handler's *http.Request (mutated in place)
    whoami,     \* the request checkSession sent (a sequence of 0 or 1)
    session,    \* checkSession's result (a sequence of 0 or 1)
    forwarded,  \* the request handed to oryUpstream (0 or 1)
    delegated,  \* the request handed to next, the application proxy (0 or 1)
    upRes,      \* the upstream's response (0 or 1)
    w,          \* the response written to the caller
    branch,     \* which branch of checkOry handled the request
    now,        \* the clock read by time.Now()
    minted,     \* number of tokens minted so far (source of token ids)
    issued,     \* the token ids (jti) of the tokens handed to the application
    attempts,   \* failed attempts of the session check in progress (c.Do)
    \* ---- configuration and start-up artefacts ----
    conf,       \* config: hostPort, noCert
    endpoint,   \* the identity endpoint URL (getEndpointURL)
    keys,       \* the signing key set (newSigner)
    cert,       \* the certificate createTLSCertificate returned ("none" before)
    \* ---- CertSpec / LifeSpec: certificate, trust stores, run ----
    pc,         \* run's position
    store,      \* the trust stores holding the certificate
    cleanup,    \* the release function createTLSCertificate returned
    installs,   \* calls of truststore.Install
    uninstalls, \* calls of truststore.Uninstall
    releases,   \* results of the calls of the release function, in order
    inflight,   \* connections whose request is being handled
    signalled,  \* a shutdown signal was delivered
    handled     \* requests served to completion

vars == << phase, inbound, r, whoami, session, forwarded, delegated, upRes, w,
           branch, now, minted, issued, attempts, conf,
           endpoint, keys, cert, pc, store, cleanup, installs,
           uninstalls, releases, inflight, signalled, handled >>

exchangeVars == << phase, inbound, r, whoami, session, forwarded, delegated,
                   upRes, w, branch, now, minted, issued,
                   attempts >>
setupVars == << conf, endpoint, keys, cert >>
lifeVars == << pc, store, cleanup, installs, uninstalls, releases, inflight,
               signalled, handled >>

(***************************************************************************)
(* Go strings package, on token sequences.                                 *)
(***************************************************************************)
HasPrefix(s, prefix) ==
    /\ Len(s) >= Len(prefix)
    /\ SubSeq(s, 1, Len(prefix)) = prefix

TrimPrefix(s, prefix) ==
    IF HasPrefix(s, prefix) THEN SubSeq(s, Len(prefix) + 1, Len(s)) ELSE s

RECURSIVE ReplaceAll(_, _, _)
ReplaceAll(s, old, new) ==
    IF s = << >> THEN << >>
    ELSE IF HasPrefix(s, old)
         THEN new \o ReplaceAll(SubSeq(s, Len(old) + 1, Len(s)), old, new)
         ELSE << Head(s) >> \o ReplaceAll(Tail(s), old, new)

\* Case folding of the host names the model uses.
ToLower(s) ==
    CASE s = "ORY.Example"      -> "ory.example"
      [] s = "ORY.Example:4433" -> "ory.example:4433"
      [] OTHER                  -> s

EqualFold(a, b) == ToLower(a) = ToLower(b)

(***************************************************************************)
(* Bounds of the model.                                                    *)
(***************************************************************************)
MaxKeys == 2        \* keys in the generated signing key set
MaxCookies == 2     \* Set-Cookie headers of one identity-provider response
MaxClock == 1       \* clock values 0..MaxClock
MaxMint == 2        \* tokens minted in one behaviour
MaxReleaseCalls == 5 \* calls of the release function in CertSpec
MaxConns == 2       \* concurrently handled requests in LifeSpec
MaxHandled == 2     \* requests served to completion in LifeSpec

(***************************************************************************)
(* Program constants.                                                      *)
(***************************************************************************)
StatusSeeOther == 303            \* http.StatusSeeOther, lines 214-226
StatusOK == 200                  \* herodot Writer.Write's default status
StatusInternalServerError == 500 \* herodot Writer.WriteError's default status
StatusBadGateway == 502          \* httputil.ReverseProxy's default error handler
Minute == 60                     \* time.Minute in seconds, line 257
RetryMax == 5                    \* ResilientClientWithMaxRetry(5), line 162

HSTSValue == "max-age=0;"        \* line 98

(***************************************************************************)
(* URLs.  A host is the string url.URL.Host; Hostname() strips the port.   *)
(***************************************************************************)
Hostname(host) ==
    CASE host = "ory.example:4433" -> "ory.example"
      [] host = "ORY.Example:4433" -> "ORY.Example"
      [] host = "localhost:4000"   -> "localhost"
      [] OTHER                     -> host

HostPorts == { "localhost:4000" }
Endpoints ==
    { [scheme |-> "https", host |-> h, path |-> << >>, query |-> {}] :
        h \in { "ory.example", "ory.example:4433" } }

\* The reserved paths of checkOry, as token sequences.
OryPrefix == << "/", ".ory" >>           \* "/.ory"
OrySegment == << "/", ".ory", "/" >>     \* "/.ory/"
Slash == << "/" >>
JwksPath == OrySegment \o << "jwks.json" >>
LoginPath == OrySegment \o << "login" >>
Flows == { "login", "registration", "recovery", "verification", "settings" }
InitPath(flow) == OrySegment \o << "init", "/", flow >>

\* Inbound request paths.
Paths ==
    { JwksPath, LoginPath } \cup { InitPath(f) : f \in Flows } \cup
    { << "/" >>,
      << "/", "dashboard" >>,
      << "/", ".ory", "x", "/", "foo" >>,              \* "/.oryx/foo"
      << "/", "a", "/", ".ory", "/", "b" >>,           \* "/a/.ory/b"
      OryPrefix,                                        \* "/.ory"
      OrySegment,                                       \* "/.ory/"
      OrySegment \o << "sessions" >>,                   \* "/.ory/sessions"
      OrySegment \o << "a", "/", ".ory", "/", "b" >>,   \* "/.ory/a/.ory/b"
      OrySegment \o << ".ory", "/", "b" >>,             \* "/.ory/.ory/b"
      OrySegment \o << "init", "/", "other" >> }        \* "/.ory/init/other"

(***************************************************************************)
(* Session payloads, tokens, header values.                                *)
(***************************************************************************)
\* The whoami payloads: `active` is a JSON boolean or missing, identity.id
\* a string or missing (""), traits stands for the rest of the document.
Payloads ==
    [ active : { "true" }, id : { "u1", "u2", "" }, traits : { "t1", "t2" } ]
    \cup { [ active |-> "false", id |-> "u1", traits |-> "t1" ],
           [ active |-> "false", id |-> "", traits |-> "t1" ],
           [ active |-> "absent", id |-> "", traits |-> "t1" ] }
BlankPayload == [active |-> "absent", id |-> "", traits |-> ""]

\* gjson.GetBytes(session, "active").Bool() and (.., "identity.id").String()
GjsonBool(v) == v = "true"
GjsonString(v) == v

NoURL == [scheme |-> "", host |-> "", path |-> << >>, query |-> {}]
BlankToken ==
    [ typ |-> "", kid |-> "", iss |-> NoURL, sub |-> "", exp |-> 0, nbf |-> 0,
      iat |-> 0, jti |-> 0, session |-> BlankPayload ]
\* A token a caller forged: every claim looks like one of the proxy's.
ForgedToken(ep) ==
    [ typ |-> "JWT", kid |-> "attacker", iss |-> ep, sub |-> "u1",
      exp |-> Minute, nbf |-> 0, iat |-> 0, jti |-> 0,
      session |-> [active |-> "true", id |-> "u1", traits |-> "t1"] ]

Bearer(token) == [scheme |-> "Bearer", cred |-> token]
EmptyCred == [scheme |-> "", cred |-> BlankToken]

\* http.Header: each name maps to its list of values.
HeaderGet(values, empty) == IF values = << >> THEN empty ELSE Head(values)
HeaderSet(value) == << value >>
HeaderDel == << >>

\* The headers of an inbound request: each present or absent.
InboundHeaders(ep) ==
    [ Authorization : { << >>, << Bearer(ForgedToken(ep)) >> },
      Cookie        : { << >>, << "ory_session=s1" >> },
      XSessionToken : { << >>, << "tok" >> },
      XRequestId    : { << >>, << "rid" >> },
      XOther        : { << >>, << "other" >> } ]

Queries == { {}, { << "isProxy", << "false" >> >>, << "a", << "1" >> >> } }

Requests(cf, ep) ==
    [ method : { "GET" },
      path   : Paths,
      host   : { cf.hostPort },
      query  : Queries,
      header : InboundHeaders(ep) ]

\* url.Values.Set
QuerySet(q, key, value) ==
    { kv \in q : kv[1] # key } \cup { << key, value >> }

(***************************************************************************)
(* Signing keys (newSigner, lines 139-155) and their public halves.        *)
(***************************************************************************)
NoD == ""
KeyIds == << "kid-1", "kid-2", "kid-3", "kid-4" >>  \* uuid.NewV4(), line 142
GeneratedKey(i) ==
    [ kid |-> KeyIds[i], alg |-> "ES256", x |-> "pub", d |-> "priv" ]
KeySets == { [ i \in 1..MaxKeys |-> GeneratedKey(i) ] }
\* jwksx.GenerateSigningKeys, line 141: another run of the generator gives
\* other key material.
RegeneratedKey(i) ==
    [ kid |-> KeyIds[i], alg |-> "ES256", x |-> "pub-2", d |-> "priv-2" ]
GeneratedKeySets == KeySets \cup { [ i \in 1..MaxKeys |-> RegeneratedKey(i) ] }
\* tlsx.CreateSelfSignedCertificate, line 320: each call gives a new
\* certificate.
NoCertificate == "none"
Certificates == { "cert-1", "cert-2" }

\* Mutant of Public: the key is published as it is.
PublicWithPrivate(key) == key

\* jose.JSONWebKey.Public(): the key without its private parameter.
Public(key) == [ key EXCEPT !.d = NoD ]

\* lines 164-167
publicKeys(ks) == [ i \in 1..Len(ks) |-> Public(ks[i]) ]

(***************************************************************************)
(* Responses.                                                              *)
(***************************************************************************)
NoHeader == [ sts |-> << >>, location |-> << >>, setCookie |-> << >> ]
NoBody == [ kind |-> "none", keys |-> << >> ]
NoResponse == [ status |-> 0, header |-> NoHeader, body |-> NoBody ]

\* Set-Cookie headers an identity provider sends: the Domain attribute is
\* the endpoint's host name, the same in another case, a foreign domain, or
\* missing ("").
CookieDomains(ep) ==
    { Hostname(ep.host), "ORY.Example", "other.example", "" }
Cookies(ep) ==
    [ name : { "ory_session" }, value : { "s1" }, path : { "/" },
      domain : CookieDomains(ep), secure : { TRUE } ]

RECURSIVE SeqsUpTo(_, _)
SeqsUpTo(S, n) ==
    IF n = 0 THEN { << >> }
    ELSE LET shorter == SeqsUpTo(S, n - 1)
         IN  shorter \cup { Append(q, x) : q \in shorter, x \in S }

\* Absolute Location URLs of an identity-provider response.
LocationPaths ==
    { << >>,
      << "/", "ui" >>,
      OryPrefix,                                   \* "/.ory"
      OrySegment \o << "ui" >>,                    \* "/.ory/ui"
      OrySegment \o << ".ory", "/", "ui" >>,       \* "/.ory/.ory/ui"
      << "/", ".ory", "x", "/", "ui" >> }          \* "/.oryx/ui"
LocationHosts(ep) ==
    { ep.host, "ORY.Example", "ORY.Example:4433", "other.example" }
Locations(ep) ==
    [ scheme : { "https" }, host : LocationHosts(ep), path : LocationPaths,
      query : { {} } ]

UpstreamSTS == "max-age=31536000"
UpstreamResponse(sts, location, cookies) ==
    [ status |-> IF location = << >> THEN StatusOK ELSE StatusSeeOther,
      header |-> [ sts |-> sts, location |-> location, setCookie |-> cookies ],
      body   |-> [ kind |-> "upstream", keys |-> << >> ] ]

\* Every response the identity provider may give (RewriteSpec).
OryResponses(ep) ==
    { UpstreamResponse(sts, loc, cs) :
        sts \in { << >>, << UpstreamSTS >> },
        loc \in { << >> } \cup { << l >> : l \in Locations(ep) },
        cs  \in SeqsUpTo(Cookies(ep), MaxCookies) }

\* The upstream responses Spec draws from: with or without a
\* Strict-Transport-Security header of the upstream's own, and for the
\* identity provider with or without a redirect and a cookie.
AppResponses ==
    { UpstreamResponse(sts, << >>, << >>) : sts \in { << >>, << UpstreamSTS >> } }
PlainOryResponses(ep) ==
    { UpstreamResponse(<< >>, << >>, << >>),
      UpstreamResponse(
          << UpstreamSTS >>,
          << [ scheme |-> "https", host |-> ep.host, path |-> << "/", "ui" >>,
               query |-> {} ] >>,
          << [ name |-> "ory_session", value |-> "s1", path |-> "/",
               domain |-> Hostname(ep.host), secure |-> TRUE ] >>) }

(***************************************************************************)
(* oryUpstream.ModifyResponse, lines 170-196.                              *)
(***************************************************************************)
\* Mutant of rewriteLocation: the prefix is added without trimming.
rewriteLocationNoTrim(redir, ep, cf) ==
    IF EqualFold(redir.host, ep.host)
    THEN [ redir EXCEPT !.host = cf.hostPort, !.path = OryPrefix \o redir.path ]
    ELSE redir

\* lines 176-183: the Location header
rewriteLocation(redir, ep, cf) ==
    IF EqualFold(redir.host, ep.host)
    THEN [ redir EXCEPT !.host = cf.hostPort,
                        !.path = OryPrefix \o TrimPrefix(redir.path, OryPrefix) ]
    ELSE redir

\* Mutant of keepCookie: the Domain is compared with the host and its port.
keepCookieHostPort(c, ep) == EqualFold(c.domain, ep.host)

\* line 188: whether a cookie is kept
keepCookie(c, ep) == EqualFold(c.domain, Hostname(ep.host))

\* lines 185-193: the Set-Cookie headers
RECURSIVE rewriteCookies(_, _)
rewriteCookies(cookies, ep) ==
    IF cookies = << >> THEN << >>
    ELSE LET c == Head(cookies)
             rest == rewriteCookies(Tail(cookies), ep)
         IN  IF keepCookie(c, ep)
             THEN << [ c EXCEPT !.domain = "" ] >> \o rest
             ELSE rest

ModifyResponse(res, reqHost, ep, cf) ==
    IF ~EqualFold(reqHost, ep.host)
    THEN res
    ELSE [ res EXCEPT
             !.header.location =
                 IF res.header.location = << >> THEN << >>
                 ELSE << rewriteLocation(Head(res.header.location), ep, cf) >>,
             !.header.setCookie = rewriteCookies(res.header.setCookie, ep) ]

\* httputil.ReverseProxy: the upstream's headers are added to those already
\* set on the ResponseWriter, and its status and body are written.
copyResponse(rw, res) ==
    [ status |-> res.status,
      header |-> [ sts       |-> rw.header.sts \o res.header.sts,
                   location  |-> rw.header.location \o res.header.location,
                   setCookie |-> rw.header.setCookie \o res.header.setCookie ],
      body   |-> res.body ]

(***************************************************************************)
(* The middleware chain: the HSTS middleware of run (lines 96-100) and     *)
(* the handler returned by checkOry (lines 198-269).                       *)
(***************************************************************************)
BlankRequest ==
    [ method |-> "", path |-> << >>, host |-> "", query |-> {},
      header |-> [ Authorization |-> << >>, Cookie |-> << >>,
                   XSessionToken |-> << >>, XRequestId |-> << >>,
                   XOther |-> << >> ] ]

\* Mutant of setHSTS: the header is not set.
setHSTSMissing(rw) == rw

\* line 98
setHSTS(rw) == [ rw EXCEPT !.header.sts = HeaderSet(HSTSValue) ]

\* Mutant of initUrl: return_to is the proxy's origin over plain http.
initUrlPlainHttp(method, cf) ==
    [ scheme |-> "", host |-> "",
      path   |-> OrySegment \o << "api", "/", "kratos", "/", "public", "/",
                                  "self-service", "/", method, "/", "browser" >>,
      query  |-> { << "return_to", << "http://", cf.hostPort >> >> } ]

\* lines 157-159: the redirect target, a URL without scheme and host
initUrl(method, cf) ==
    [ scheme |-> "", host |-> "",
      path   |-> OrySegment \o << "api", "/", "kratos", "/", "public", "/",
                                  "self-service", "/", method, "/", "browser" >>,
      query  |-> { << "return_to", << "https://", cf.hostPort >> >> } ]

\* lines 199-231: which branch of the handler takes the path
classify(path) ==
    IF path = JwksPath \/ path = LoginPath THEN "keys"
    ELSE IF \E f \in Flows : path = InitPath(f) THEN "init"
    ELSE IF HasPrefix(path, OryPrefix) THEN "ory"
    ELSE "app"

flowOf(path) == CHOOSE f \in Flows : path = InitPath(f)

\* Mutant of writeKeys: the key set is not written.
writeKeysNothing(rw, ks) == rw

\* herodot Writer.Write(w, r, publicKeys), lines 200, 205, 211
writeKeys(rw, ks) ==
    [ rw EXCEPT !.status = StatusOK,
                !.body = [ kind |-> "jwks", keys |-> publicKeys(ks) ] ]

\* http.Redirect(w, r, initUrl(flow, conf), http.StatusSeeOther), lines 213-227
redirect(rw, url) ==
    [ rw EXCEPT !.status = StatusSeeOther,
                !.header.location = HeaderSet(url),
                !.body = [ kind |-> "redirect", keys |-> << >> ] ]

\* Mutant of writeError: no error response is written.
writeErrorNothing(rw) == rw

\* herodot Writer.WriteError(w, r, err), line 263
writeError(rw) ==
    [ rw EXCEPT !.status = StatusInternalServerError,
                !.body = [ kind |-> "error", keys |-> << >> ] ]

\* httputil.ReverseProxy's error handler: the upstream was unreachable
badGateway(rw) ==
    [ rw EXCEPT !.status = StatusBadGateway,
                !.body = [ kind |-> "error", keys |-> << >> ] ]

\* lines 232-236: the request as forwarded to the identity provider
toOry(req, ep) ==
    [ req EXCEPT !.path = ReplaceAll(req.path, OrySegment, Slash),
                 !.host = ep.host,
                 !.query = QuerySet(req.query, "isProxy", << "true" >>) ]

\* checkSession, lines 272-284: the request sent to the whoami endpoint
WhoamiPath ==
    << "api", "/", "kratos", "/", "public", "/", "sessions", "/", "whoami" >>
\* Mutant of checkSessionRequest: every inbound header but Authorization is
\* copied.
checkSessionRequestOtherHeaders(req, ep) ==
    [ method |-> "GET",
      url    |-> [ ep EXCEPT !.path = ep.path \o WhoamiPath ],
      header |-> [ Cookie |-> HeaderSet(HeaderGet(req.header.Cookie, "")),
                   Authorization |-> HeaderSet(EmptyCred),
                   XSessionToken |-> HeaderSet(HeaderGet(req.header.XSessionToken, "")),
                   XRequestId |-> HeaderSet(HeaderGet(req.header.XRequestId, "")),
                   XOther |-> HeaderSet(HeaderGet(req.header.XOther, "")),
                   Accept |-> HeaderSet("application/json") ] ]

checkSessionRequest(req, ep) ==
    [ method |-> "GET",
      url    |-> [ ep EXCEPT !.path = ep.path \o WhoamiPath ],
      header |-> [ Cookie        |-> HeaderSet(HeaderGet(req.header.Cookie, "")),
                   Authorization |->
                       HeaderSet(HeaderGet(req.header.Authorization, EmptyCred)),
                   XSessionToken |->
                       HeaderSet(HeaderGet(req.header.XSessionToken, "")),
                   XRequestId    |-> HeaderSet(HeaderGet(req.header.XRequestId, "")),
                   Accept        |-> HeaderSet("application/json") ] ]

\* checkSession's results: an error (transport failure, undecodable body)
\* or the decoded body.
SessionResults ==
    { [ err |-> TRUE, body |-> BlankPayload, reason |-> "decode" ] }
    \cup { [ err |-> FALSE, body |-> p, reason |-> "" ] : p \in Payloads }
\* lines 286-289: c.Do gave no response
CallFailed == [ err |-> TRUE, body |-> BlankPayload, reason |-> "call" ]

\* Mutant of delAuthorization: the caller's header is left in place.
delAuthorizationKept(req) == req

\* Mutant of delAuthorization: the caller's cookies are removed as well.
delAuthorizationAndCookie(req) ==
    [ req EXCEPT !.header.Authorization = HeaderDel, !.header.Cookie = HeaderDel ]

\* line 247
delAuthorization(req) == [ req EXCEPT !.header.Authorization = HeaderDel ]

\* line 248: whether a token is issued
isActive(res) == ~res.err /\ GjsonBool(res.body.active)

\* Mutant of signedToken: the subject is read from the wrong field.
signedTokenWrongSubject(sess, ks, ep, t, id) ==
    [ typ |-> "JWT", kid |-> ks[1].kid, iss |-> ep, sub |-> sess.traits,
      exp |-> t + Minute, nbf |-> t, iat |-> t, jti |-> id, session |-> sess ]

\* Mutant of signedToken: the token minted for the first request at time 0
\* is kept and handed out again.
signedTokenCached(sess, ks, ep, t, id) ==
    [ typ |-> "JWT", kid |-> ks[1].kid, iss |-> ep, sub |-> GjsonString(sess.id),
      exp |-> Minute, nbf |-> 0, iat |-> 0, jti |-> 1, session |-> sess ]

\* lines 253-261: the signed token; t is time.Now() of line 253 and id the
\* fresh uuid of line 260
signedToken(sess, ks, ep, t, id) ==
    [ typ     |-> "JWT",
      kid     |-> ks[1].kid,
      iss     |-> ep,
      sub     |-> GjsonString(sess.id),
      exp     |-> t + Minute,
      nbf     |-> t,
      iat     |-> t,
      jti     |-> id,
      session |-> sess ]

\* line 267
setAuthorization(req, token) ==
    [ req EXCEPT !.header.Authorization = HeaderSet(Bearer(token)) ]

\* The handler up to its first outbound call.
ServeHTTP(req) ==
    /\ pc = "serving"
    /\ phase = "idle"
    /\ inbound' = req
    /\ session' = << >>
    /\ upRes' = << >>
    /\ delegated' = << >>
    /\ branch' = classify(req.path)
    /\ LET rw == setHSTS(NoResponse)
       IN  CASE branch' = "keys" ->
                  /\ w' = writeKeys(rw, keys)
                  /\ r' = req
                  /\ phase' = "done"
                  /\ whoami' = << >>
                  /\ forwarded' = << >>
             [] branch' = "init" ->
                  /\ w' = redirect(rw, initUrl(flowOf(req.path), conf))
                  /\ r' = req
                  /\ phase' = "done"
                  /\ whoami' = << >>
                  /\ forwarded' = << >>
             [] branch' = "ory" ->
                  /\ w' = rw
                  /\ r' = toOry(req, endpoint)
                  /\ forwarded' = << r' >>
                  /\ phase' = "ory"
                  /\ whoami' = << >>
             [] OTHER ->
                  /\ w' = rw
                  /\ r' = req
                  /\ whoami' = << checkSessionRequest(req, endpoint) >>
                  /\ forwarded' = << >>
                  /\ phase' = "session"
    /\ UNCHANGED << now, minted, issued, attempts, setupVars,
                    lifeVars >>

\* checkSession returns (line 246) and the handler runs to its next
\* outbound call or to its end (lines 247-268).
SessionReturns(res, signOk) ==
    /\ phase = "session"
    /\ session' = << res >>
    /\ LET r1 == delAuthorization(r)
       IN  IF ~isActive(res)
           THEN /\ r' = r1
                /\ delegated' = << r1 >>
                /\ phase' = "app"
                /\ UNCHANGED << w, minted, issued >>
           ELSE IF ~signOk
           THEN /\ r' = r1
                /\ w' = writeError(w)
                /\ phase' = "done"
                /\ UNCHANGED << delegated, minted, issued >>
           ELSE /\ minted < MaxMint
                /\ LET raw == signedToken(res.body, keys, endpoint, now,
                                          minted + 1)
                   IN  /\ r' = setAuthorization(r1, raw)
                       /\ issued' = issued \cup { raw.jti }
                /\ delegated' = << r' >>
                /\ minted' = minted + 1
                /\ phase' = "app"
                /\ UNCHANGED w
    /\ attempts' = 0
    /\ UNCHANGED << inbound, whoami, forwarded, upRes, branch, now,
                    setupVars, lifeVars >>

\* Mutant of shouldRetry: one retry more than configured.
shouldRetryOnceMore(failed) == failed < RetryMax + 1

\* line 162, ResilientClientWithMaxRetry(5): after a failed attempt the
\* client tries again while it has made fewer than RetryMax retries, that
\* is while fewer than RetryMax + 1 attempts have failed.
shouldRetry(failed) == failed < RetryMax

\* lines 286-289: an attempt of c.Do fails (no connection, the 2 s timeout
\* of line 162, a 5xx answer).  If the failure is retryable and retries are
\* left the client waits (at most 5 ms) and tries again; otherwise c.Do
\* returns its error, checkSession returns it (line 288) and the handler
\* goes on as after any failed session check.
SessionAttemptFails(retryable) ==
    /\ phase = "session"
    /\ IF retryable /\ shouldRetry(attempts)
       THEN /\ attempts' = attempts + 1
            /\ UNCHANGED << phase, inbound, r, whoami, session, forwarded,
                            delegated, upRes, w, branch, now, minted, issued,
                            setupVars, lifeVars >>
       ELSE SessionReturns(CallFailed, FALSE)

\* The identity provider answers the forwarded request: ModifyResponse
\* runs and the response is written (line 242).
OryResponds(res) ==
    /\ phase = "ory"
    /\ upRes' = << res >>
    /\ w' = copyResponse(w, ModifyResponse(res, Head(forwarded).host,
                                           endpoint, conf))
    /\ phase' = "done"
    /\ UNCHANGED << inbound, r, whoami, session, forwarded, delegated, branch,
                    now, minted, issued, attempts, setupVars,
                    lifeVars >>

\* The identity provider cannot be reached.
OryFails ==
    /\ phase = "ory"
    /\ w' = badGateway(w)
    /\ phase' = "done"
    /\ UNCHANGED << inbound, r, whoami, session, forwarded, delegated, upRes,
                    branch, now, minted, issued, attempts, setupVars,
                    lifeVars >>

\* The application answers the delegated request (run, line 103).
AppResponds(res) ==
    /\ phase = "app"
    /\ upRes' = << res >>
    /\ w' = copyResponse(w, res)
    /\ phase' = "done"
    /\ UNCHANGED << inbound, r, whoami, session, forwarded, delegated, branch,
                    now, minted, issued, attempts, setupVars,
                    lifeVars >>

\* The application cannot be reached.
AppFails ==
    /\ phase = "app"
    /\ w' = badGateway(w)
    /\ phase' = "done"
    /\ UNCHANGED << inbound, r, whoami, session, forwarded, delegated, upRes,
                    branch, now, minted, issued, attempts, setupVars,
                    lifeVars >>

\* The exchange is over; the connection waits for its next request.
Finish ==
    /\ phase = "done"
    /\ phase' = "idle"
    /\ inbound' = BlankRequest
    /\ r' = BlankRequest
    /\ whoami' = << >>
    /\ session' = << >>
    /\ forwarded' = << >>
    /\ delegated' = << >>
    /\ upRes' = << >>
    /\ w' = NoResponse
    /\ branch' = "none"
    /\ UNCHANGED << now, minted, issued, attempts, setupVars,
                    lifeVars >>

\* Time passes.
Tick ==
    /\ now < MaxClock
    /\ now' = now + 1
    /\ UNCHANGED << phase, inbound, r, whoami, session, forwarded, delegated,
                    upRes, w, branch, minted, issued, attempts, setupVars,
                    lifeVars >>

(***************************************************************************)
(* Spec: the serving proxy, one connection.                                *)
(***************************************************************************)
Stores == { "system", "firefox", "java" }   \* lines 347-350

IdleExchange ==
    /\ phase = "idle"
    /\ inbound = BlankRequest
    /\ r = BlankRequest
    /\ whoami = << >>
    /\ session = << >>
    /\ forwarded = << >>
    /\ delegated = << >>
    /\ upRes = << >>
    /\ w = NoResponse
    /\ branch = "none"
    /\ now = 0
    /\ minted = 0
    /\ issued = {}
    /\ attempts = 0

\* run has reached ListenAndServeTLS with the certificate installed.
Init ==
    /\ IdleExchange
    /\ conf \in [ hostPort : HostPorts, noCert : { FALSE } ]
    /\ endpoint \in Endpoints
    /\ keys \in KeySets
    /\ cert = "cert-1"
    /\ pc = "serving"
    /\ store = Stores
    /\ cleanup = "uninstall"
    /\ installs = 1
    /\ uninstalls = 0
    /\ releases = << >>
    /\ inflight = {}
    /\ signalled = FALSE
    /\ handled = 0

Serve == phase = "idle" /\ \E req \in Requests(conf, endpoint) : ServeHTTP(req)
SessionChecked ==
    phase = "session" /\ \E res \in SessionResults, ok \in BOOLEAN : SessionReturns(res, ok)
SessionFails ==
    phase = "session" /\ \E retryable \in BOOLEAN : SessionAttemptFails(retryable)
OryAnswers == phase = "ory" /\ \E res \in PlainOryResponses(endpoint) : OryResponds(res)
AppAnswers == phase = "app" /\ \E res \in AppResponses : AppResponds(res)

Next ==
    \/ Serve
    \/ SessionChecked
    \/ SessionFails
    \/ OryAnswers
    \/ OryFails
    \/ AppAnswers
    \/ AppFails
    \/ Finish
    \/ Tick

Spec == Init /\ [][Next]_vars

\* Every attempt of the session check ends: the client's timeout bounds it
\* (line 162), so it is answered or it fails.
FairSpec == Spec /\ WF_vars(SessionChecked \/ SessionFails)

(***************************************************************************)
(* createTLSCertificate, lines 317-360, and the trust stores.              *)
(***************************************************************************)
\* The outcomes of truststore.Install(c, opts...), line 352: the
\* certificate is in every store, or the call failed with the certificate
\* added to some of them.
InstallOutcomes(s) ==
    { [ err |-> FALSE, store |-> Stores ] }
    \cup { [ err |-> TRUE, store |-> s \cup added ] :
             added \in SUBSET Stores \ { Stores } }

\* The outcomes of truststore.Uninstall(c, opts...), line 358: the
\* certificate is in no store, or the call failed with the certificate
\* left in some of the stores that held it (possibly in none, as when the
\* certificate was not there to remove).
UninstallOutcomes(s) ==
    { [ err |-> FALSE, store |-> {} ] }
    \cup { [ err |-> TRUE, store |-> left ] : left \in SUBSET s }

\* Mutant of release: the noCert release function uninstalls too.
releaseAlwaysUninstalls(fn, s, out) ==
    [ err |-> out.err, store |-> out.store, uninstall |-> 1 ]

\* One call of the release function: lines 340-342 (noCert) or 356-359.
\* The result, the trust stores afterwards, and whether Uninstall ran.
release(fn, s, out) ==
    IF fn = "noop"
    THEN [ err |-> FALSE, store |-> s, uninstall |-> 0 ]
    ELSE [ err |-> out.err, store |-> out.store, uninstall |-> 1 ]

\* Mutant of createTLSCertificate: the noCert option is not consulted.
createTLSCertificateIgnoresNoCert(certOk, out, next) ==
    /\ pc = "cert"
    /\ IF ~certOk
       THEN /\ pc' = "failed"
            /\ UNCHANGED << store, cleanup, installs, cert >>
       ELSE /\ installs' = installs + 1
            /\ store' = out.store
            /\ IF out.err
               THEN /\ pc' = "failed"
                    /\ UNCHANGED << cleanup, cert >>
               ELSE /\ pc' = next
                    /\ cleanup' = "uninstall"
                    /\ cert' \in Certificates
    /\ UNCHANGED << exchangeVars, conf, endpoint, keys, uninstalls, releases,
                    inflight, signalled, handled >>

\* createTLSCertificate(conf): certOk is whether the certificate could be
\* generated (lines 318-335); `next` is where the caller continues.
createTLSCertificate(certOk, out, next) ==
    /\ pc = "cert"
    /\ IF ~certOk
       THEN /\ pc' = "failed"
            /\ UNCHANGED << store, cleanup, installs, cert >>
       ELSE IF conf.noCert
       THEN /\ pc' = next
            /\ cleanup' = "noop"
            /\ cert' \in Certificates
            /\ UNCHANGED << store, installs >>
       ELSE /\ installs' = installs + 1
            /\ store' = out.store
            /\ IF out.err
               THEN /\ pc' = "failed"
                    /\ UNCHANGED << cleanup, cert >>
               ELSE /\ pc' = next
                    /\ cleanup' = "uninstall"
                    /\ cert' \in Certificates
    /\ UNCHANGED << exchangeVars, conf, endpoint, keys, uninstalls, releases,
                    inflight, signalled, handled >>

\* The caller invokes the release function.
callRelease(out, next) ==
    LET res == release(cleanup, store, out)
    IN  /\ releases' = Append(releases, res.err)
        /\ store' = res.store
        /\ uninstalls' = uninstalls + res.uninstall
        /\ pc' = next
        /\ UNCHANGED << exchangeVars, setupVars, cleanup, installs, inflight,
                        signalled, handled >>

(***************************************************************************)
(* CertSpec: createTLSCertificate, then calls of the release function.     *)
(***************************************************************************)
BeforeStartup ==
    /\ IdleExchange
    /\ conf \in [ hostPort : HostPorts, noCert : BOOLEAN ]
    /\ endpoint = NoURL
    /\ keys = << >>
    /\ cert = NoCertificate
    /\ store = {}
    /\ cleanup = "none"
    /\ installs = 0
    /\ uninstalls = 0
    /\ releases = << >>
    /\ inflight = {}
    /\ signalled = FALSE
    /\ handled = 0

CertInit == BeforeStartup /\ pc = "cert"

CertCreate ==
    /\ pc = "cert"
    /\ \E certOk \in BOOLEAN, out \in InstallOutcomes(store) :
          createTLSCertificate(certOk, out, "created")

CertRelease ==
    /\ pc = "created"
    /\ Len(releases) < MaxReleaseCalls
    /\ \E out \in UninstallOutcomes(store) : callRelease(out, "created")

CertNext ==
    \/ CertCreate
    \/ CertRelease

CertSpec == CertInit /\ [][CertNext]_vars

(***************************************************************************)
(* LifeSpec: run, lines 67-137.                                            *)
(***************************************************************************)
Conns == 1..MaxConns

LifeInit == BeforeStartup /\ pc = "parse"

\* lines 68-71
ParseUpstream ==
    /\ pc = "parse"
    /\ \E ok \in BOOLEAN : pc' = IF ok THEN "cert" ELSE "failed"
    /\ UNCHANGED << exchangeVars, setupVars, store, cleanup, installs,
                    uninstalls, releases, inflight, signalled, handled >>

\* lines 73-76
RunCreateCert ==
    /\ pc = "cert"
    /\ \E certOk \in BOOLEAN, out \in InstallOutcomes(store) :
          createTLSCertificate(certOk, out, "signer")

\* Mutant of RunNewSigner: the signing keys are generated again while the
\* server is serving.
RunNewSignerAgain ==
    /\ pc \in { "signer", "serving" }
    /\ \/ pc' = (IF pc = "signer" THEN "endpoint" ELSE pc)
          /\ keys' \in GeneratedKeySets
       \/ pc' = "failed" /\ UNCHANGED keys
    /\ UNCHANGED << exchangeVars, conf, endpoint, cert, store, cleanup, installs,
                    uninstalls, releases, inflight, signalled, handled >>

\* lines 86-89
RunNewSigner ==
    /\ pc = "signer"
    /\ \/ pc' = "endpoint" /\ keys' \in GeneratedKeySets
       \/ pc' = "failed" /\ UNCHANGED keys
    /\ UNCHANGED << exchangeVars, conf, endpoint, cert, store, cleanup, installs,
                    uninstalls, releases, inflight, signalled, handled >>

\* lines 91-94
RunGetEndpoint ==
    /\ pc = "endpoint"
    /\ \/ pc' = "listen" /\ endpoint' \in Endpoints
       \/ pc' = "failed" /\ UNCHANGED endpoint
    /\ UNCHANGED << exchangeVars, conf, keys, cert, store, cleanup, installs,
                    uninstalls, releases, inflight, signalled, handled >>

\* lines 123-124 and 132-134: ListenAndServeTLS binds the listener, or
\* fails, which graceful.Graceful returns and run answers with l.Fatalln.
Listen ==
    /\ pc = "listen"
    /\ \E ok \in BOOLEAN : pc' = IF ok THEN "serving" ELSE "fatal"
    /\ UNCHANGED << exchangeVars, setupVars, store, cleanup, installs,
                    uninstalls, releases, inflight, signalled, handled >>

\* The server accepts a request on connection c.
Accept(c) ==
    /\ pc = "serving"
    /\ c \notin inflight
    /\ handled + Cardinality(inflight) < MaxHandled
    /\ inflight' = inflight \cup { c }
    /\ UNCHANGED << exchangeVars, setupVars, pc, store, cleanup, installs,
                    uninstalls, releases, signalled, handled >>

\* The handler of connection c returns.
Complete(c) ==
    /\ pc \in { "serving", "draining" }
    /\ c \in inflight
    /\ inflight' = inflight \ { c }
    /\ handled' = handled + 1
    /\ UNCHANGED << exchangeVars, setupVars, pc, store, cleanup, installs,
                    uninstalls, releases, signalled >>

\* A shutdown signal: graceful.Graceful calls the shutdown function
\* (line 125), whose server.Shutdown(ctx) closes the listener.
Signal ==
    /\ pc = "serving"
    /\ pc' = "draining"
    /\ signalled' = TRUE
    /\ UNCHANGED << exchangeVars, setupVars, store, cleanup, installs,
                    uninstalls, releases, inflight, handled >>

\* Mutant of shutdownReturnsNil: Shutdown does not wait for the requests.
shutdownReturnsNilAtOnce(conns) == TRUE

\* line 127: server.Shutdown(ctx) returns nil once no request is in flight
shutdownReturnsNil(conns) == conns = {}

\* lines 127-131: Shutdown returned nil, so cleanup() runs; its error makes
\* graceful.Graceful fail and run end in l.Fatalln (lines 132-134).
DrainedAndReleased ==
    /\ pc = "draining"
    /\ shutdownReturnsNil(inflight)
    /\ \E out \in UninstallOutcomes(store) :
          callRelease(out, IF release(cleanup, store, out).err
                           THEN "fatal" ELSE "returned")

\* lines 127-129 and 132-134: the grace period ends with requests still in
\* flight, server.Shutdown returns the context's error, the shutdown
\* function returns it without calling cleanup, and run ends in l.Fatalln.
GraceExpires ==
    /\ pc = "draining"
    /\ inflight # {}
    /\ pc' = "fatal"
    /\ UNCHANGED << exchangeVars, setupVars, store, cleanup, installs,
                    uninstalls, releases, inflight, signalled, handled >>

Accepts == pc = "serving" /\ \E c \in Conns : Accept(c)
Completes == inflight # {} /\ \E c \in Conns : Complete(c)

LifeNext ==
    \/ ParseUpstream
    \/ RunCreateCert
    \/ RunNewSigner
    \/ RunGetEndpoint
    \/ Listen
    \/ Accepts
    \/ Completes
    \/ Signal
    \/ DrainedAndReleased
    \/ GraceExpires

LifeSpec == LifeInit /\ [][LifeNext]_vars

(***************************************************************************)
(* RewriteSpec: identity-provider pass-through exchanges, with every       *)
(* response of OryResponses.                                               *)
(***************************************************************************)
PassThroughRequests(cf) ==
    { [ BlankRequest EXCEPT !.method = "GET", !.path = p, !.host = cf.hostPort ] :
        p \in { q \in Paths : classify(q) = "ory" } }

RewriteServe == phase = "idle" /\ \E req \in PassThroughRequests(conf) : ServeHTTP(req)
RewriteAnswers == phase = "ory" /\ \E res \in OryResponses(endpoint) : OryResponds(res)

RewriteNext ==
    \/ RewriteServe
    \/ RewriteAnswers
    \/ OryFails
    \/ Finish

RewriteSpec == Init /\ [][RewriteNext]_vars

(***************************************************************************)
(* Properties of the request handler.                                      *)
(***************************************************************************)
\* The request was delegated to the application reverse proxy.
Delegated == delegated # << >>
\* The session check has returned without an active session.
NoActiveSession ==
    /\ session # << >>
    /\ \/ Head(session).err
       \/ Head(session).body.active # "true"
ActiveSession ==
    /\ session # << >>
    /\ ~Head(session).err
    /\ Head(session).body.active = "true"

\* C1: when the session check of an application-traffic request returns an
\* error or a payload whose `active` is not true, the request delegated to
\* the application carries no Authorization header, whatever Authorization
\* value the caller supplied.
C1_NoAuthorizationWithoutSession ==
    (Delegated /\ NoActiveSession) =>
        Head(delegated).header.Authorization = << >>

\* C1 witness: a caller-supplied Bearer token, no active session, delegated.
C1_Witness ==
    /\ Delegated
    /\ NoActiveSession
    /\ inbound.header.Authorization = << Bearer(ForgedToken(endpoint)) >>

\* C2: when the session check returns active = true with identity.id = X,
\* the delegated request's Authorization is exactly one value
\* "Bearer <token>", the token minted by the proxy for this request (signed
\* with the proxy's key, carrying the newest token id), with subject X,
\* issuer the identity endpoint URL and the `session` claim equal to the
\* session payload; a caller-supplied value is replaced.
C2_BearerTokenForActiveSession ==
    (Delegated /\ ActiveSession) =>
        LET auth == Head(delegated).header.Authorization
            payload == Head(session).body
        IN  /\ Len(auth) = 1
            /\ auth[1].scheme = "Bearer"
            /\ auth[1].cred.kid = keys[1].kid
            /\ auth[1].cred.jti = minted
            /\ auth[1].cred.sub = payload.id
            /\ auth[1].cred.iss = endpoint
            /\ auth[1].cred.session = payload
            /\ auth # inbound.header.Authorization

\* C2 witness: an active session of identity u2 and a caller-supplied token.
C2_Witness ==
    /\ Delegated
    /\ ActiveSession
    /\ Head(session).body.id = "u2"
    /\ inbound.header.Authorization = << Bearer(ForgedToken(endpoint)) >>

\* The exchange neither checked the session nor forwarded the request.
AnsweredLocally ==
    /\ whoami = << >>
    /\ session = << >>
    /\ forwarded = << >>
    /\ delegated = << >>
    /\ upRes = << >>

IsInitPath(path) == \E f \in Flows : path = InitPath(f)

\* C5 as claimed: a flow-initiation request is answered 303 with a Location
\* at the identity endpoint, <identity-endpoint>/self-service/<flow>/browser,
\* with return_to the proxy's HTTPS origin, and is answered locally.
C5_RedirectPointsAtIdentityEndpoint ==
    (phase # "idle" /\ IsInitPath(inbound.path)) =>
        /\ phase = "done"
        /\ w.status = StatusSeeOther
        /\ w.header.location =
             << [ scheme |-> endpoint.scheme,
                  host   |-> endpoint.host,
                  path   |-> endpoint.path \o
                             << "/", "self-service", "/", flowOf(inbound.path),
                                "/", "browser" >>,
                  query  |-> { << "return_to", << "https://", conf.hostPort >> >> } ] >>
        /\ AnsweredLocally

\* C5 as amended: a flow-initiation request is answered 303 with a Location
\* that has no scheme and no host and the path
\* /.ory/api/kratos/public/self-service/<flow>/browser, that is a path in
\* the proxy's own reserved namespace, with return_to the proxy's HTTPS
\* origin; the request is answered locally.
C5_RedirectPointsAtProxyPassThrough ==
    (phase # "idle" /\ IsInitPath(inbound.path)) =>
        /\ phase = "done"
        /\ w.status = StatusSeeOther
        /\ w.header.location =
             << [ scheme |-> "",
                  host   |-> "",
                  path   |-> << "/", ".ory", "/", "api", "/", "kratos", "/",
                                "public", "/", "self-service", "/",
                                flowOf(inbound.path), "/", "browser" >>,
                  query  |-> { << "return_to", << "https://", conf.hostPort >> >> } ] >>
        /\ AnsweredLocally

\* C5 witness: the answer to /.ory/init/recovery.
C5_Witness ==
    /\ phase = "done"
    /\ inbound.path = InitPath("recovery")
    /\ w.status = StatusSeeOther

\* C6: a request to /.ory/jwks.json or /.ory/login is answered locally with
\* the key set holding the public half of every generated key, and no
\* response ever carries a key with its private parameter.
C6_OnlyPublicKeys ==
    /\ (phase # "idle" /\ inbound.path \in { JwksPath, LoginPath }) =>
          /\ phase = "done"
          /\ w.body.kind = "jwks"
          /\ Len(w.body.keys) = Len(keys)
          /\ \A i \in 1..Len(keys) :
                /\ w.body.keys[i].kid = keys[i].kid
                /\ w.body.keys[i].x = keys[i].x
          /\ AnsweredLocally
    /\ \A i \in 1..Len(w.body.keys) : w.body.keys[i].d = NoD

\* C6 witness: the answer to /.ory/login, the signing keys being private.
C6_Witness ==
    /\ phase = "done"
    /\ inbound.path = LoginPath
    /\ Len(w.body.keys) >= 1
    /\ \A i \in 1..Len(keys) : keys[i].d # NoD

\* C7 as claimed: a request whose path is not under "/.ory/" (and is not
\* "/.ory" itself) is application traffic: session-checked, and never
\* forwarded to the identity provider.
C7_OutsideNamespaceIsApplicationTraffic ==
    (/\ phase # "idle"
     /\ ~HasPrefix(inbound.path, OrySegment)
     /\ inbound.path # OryPrefix) =>
        /\ whoami # << >>
        /\ forwarded = << >>

\* C8: every response carries Strict-Transport-Security: max-age=0; -- in
\* every branch, and also when the upstream's response has a
\* Strict-Transport-Security header of its own.
C8_HSTSOnEveryResponse ==
    (phase # "idle") =>
        \E i \in 1..Len(w.header.sts) : w.header.sts[i] = HSTSValue

\* C8 witness: an application response with its own HSTS header was written.
C8_Witness ==
    /\ phase = "done"
    /\ branch = "app"
    /\ upRes # << >>
    /\ Head(upRes).header.sts = << UpstreamSTS >>

(***************************************************************************)
(* Properties of the identity-provider response rewriting (RewriteSpec).   *)
(***************************************************************************)
\* An identity-provider response was rewritten and written to the caller.
PassedThrough == phase = "done" /\ branch = "ory" /\ upRes # << >>

\* Host names are equal when they agree up to letter case.
SameHost(a, b) == ToLower(a) = ToLower(b)

WithoutDomain(c) ==
    [ name |-> c.name, value |-> c.value, path |-> c.path, domain |-> "",
      secure |-> c.secure ]

\* The cookies of cs whose Domain is the host name, in order, each without
\* its Domain; the others left out.
RECURSIVE CookiesOfHost(_, _)
CookiesOfHost(cs, hostname) ==
    IF cs = << >> THEN << >>
    ELSE (IF SameHost(Head(cs).domain, hostname)
          THEN << WithoutDomain(Head(cs)) >> ELSE << >>)
         \o CookiesOfHost(Tail(cs), hostname)

\* C3: of the Set-Cookie headers of a pass-through response, exactly those
\* whose Domain equals the identity endpoint's host name (as a host name,
\* whatever the letter case) are forwarded, in order, without Domain and with
\* their other attributes kept; a cookie with another Domain or with no
\* Domain is dropped, so no forwarded cookie has a Domain.
C3_CookieDomainRewritten ==
    PassedThrough =>
        /\ w.header.setCookie =
              CookiesOfHost(Head(upRes).header.setCookie,
                            Hostname(endpoint.host))
        /\ \A i \in 1..Len(w.header.setCookie) :
              w.header.setCookie[i].domain = ""

\* C3 witness: of two cookies, the one of the endpoint's host name is
\* forwarded and the one without Domain is dropped; the endpoint has a port.
C3_Witness ==
    /\ PassedThrough
    /\ endpoint.host # Hostname(endpoint.host)
    /\ Len(Head(upRes).header.setCookie) = 2
    /\ Head(upRes).header.setCookie[1].domain = Hostname(endpoint.host)
    /\ Head(upRes).header.setCookie[2].domain = ""
    /\ Len(w.header.setCookie) = 1

\* The path begins with "/.ory", and only once: what follows the prefix
\* does not begin with "/.ory" again.
OneLeadingOryPrefix(path) ==
    /\ HasPrefix(path, OryPrefix)
    /\ ~HasPrefix(SubSeq(path, Len(OryPrefix) + 1, Len(path)), OryPrefix)

\* The pass-through response had a Location, and this is it.
UpstreamLocation == Head(Head(upRes).header.location)
HadLocation == PassedThrough /\ Head(upRes).header.location # << >>

\* C4 as claimed: a Location whose host is the identity endpoint's host is
\* rewritten to the proxy's host:port with a path that begins with the
\* reserved prefix "/.ory" exactly once (no duplication), whatever the
\* original path; a Location of another host is left unchanged.
C4_ExactlyOnePrefixSegment ==
    HadLocation =>
        IF SameHost(UpstreamLocation.host, endpoint.host)
        THEN /\ Len(w.header.location) = 1
             /\ w.header.location[1].host = conf.hostPort
             /\ OneLeadingOryPrefix(w.header.location[1].path)
        ELSE w.header.location = << UpstreamLocation >>

\* C4 as amended: such a Location is rewritten to the proxy's host:port, and
\* its path gets the prefix "/.ory" unless it already begins with the
\* characters "/.ory", in which case the path is kept as it is (so
\* "/.ory/.ory/ui" and "/.oryx/ui" stay); scheme and query are kept.  A
\* Location of another host is left unchanged.
C4_PrefixAddedUnlessPresent ==
    HadLocation =>
        IF SameHost(UpstreamLocation.host, endpoint.host)
        THEN /\ Len(w.header.location) = 1
             /\ w.header.location[1].host = conf.hostPort
             /\ w.header.location[1].scheme = UpstreamLocation.scheme
             /\ w.header.location[1].query = UpstreamLocation.query
             /\ w.header.location[1].path =
                   IF HasPrefix(UpstreamLocation.path, OryPrefix)
                   THEN UpstreamLocation.path
                   ELSE OryPrefix \o UpstreamLocation.path
        ELSE w.header.location = << UpstreamLocation >>

\* C4 witness: a Location at the endpoint's host whose path already begins
\* with one "/.ory" segment was rewritten.
C4_Witness ==
    /\ HadLocation
    /\ UpstreamLocation.host = endpoint.host
    /\ UpstreamLocation.path = OrySegment \o << "ui" >>
    /\ w.header.location[1].host = conf.hostPort

(***************************************************************************)
(* Properties of the release function (CertSpec) and of run (LifeSpec).    *)
(***************************************************************************)
\* C9 as claimed: the second call of the release function returns no error
\* and makes no second uninstall attempt, whether or not the certificate
\* was installed.
C9_SecondReleaseDoesNothing ==
    Len(releases) >= 2 =>
        /\ releases[2] = FALSE
        /\ uninstalls <= 1

\* C9 as amended: when installation was suppressed, every call of the
\* release function returns nil and touches no trust store; when the
\* certificate was installed, every call, the second included, calls
\* truststore.Uninstall again.
C9_ReleaseUninstallsOnEveryCall ==
    /\ conf.noCert =>
          /\ \A i \in 1..Len(releases) : releases[i] = FALSE
          /\ uninstalls = 0
          /\ installs = 0
          /\ store = {}
    /\ ~conf.noCert => uninstalls = Len(releases)

\* C9 witness: two calls of the release function of an installed
\* certificate, each of which called truststore.Uninstall.
C9_Witness ==
    /\ Len(releases) = 2
    /\ ~conf.noCert
    /\ uninstalls = 2

\* run has ended after a shutdown signal.
EndedAfterSignal == signalled /\ pc \in { "returned", "fatal" }

\* C10 as claimed: after a shutdown signal the release function is invoked,
\* exactly once, and never while a request is still being handled.
C10_ReleasedExactlyOnceAfterSignal ==
    /\ EndedAfterSignal => Len(releases) = 1
    /\ Len(releases) <= 1
    /\ Len(releases) = 1 => inflight = {}

\* C10 as amended: after a shutdown signal the server accepts no request;
\* the release function is invoked exactly once if server.Shutdown returned
\* nil, that is if every in-flight request completed within the grace
\* period, and is not invoked at all if the grace period expired with a
\* request still in flight; it is never invoked before the signal nor while
\* a request is being handled.
C10_ReleasedOnceIfDrained ==
    /\ (EndedAfterSignal /\ inflight = {}) => Len(releases) = 1
    /\ (EndedAfterSignal /\ inflight # {}) => Len(releases) = 0
    /\ Len(releases) <= 1
    /\ Len(releases) = 1 => (signalled /\ inflight = {})

\* C10 witness: requests were served, the signal came, and the release
\* function was invoked.
C10_Witness ==
    /\ EndedAfterSignal
    /\ handled = MaxHandled
    /\ Len(releases) = 1
    /\ pc = "returned"

(***************************************************************************)
(* Properties of run with the noCert option.                               *)
(***************************************************************************)
\* C11: when the noCert option is set, the certificate is never installed
\* into and never removed from any trust store during the whole life of
\* run (no Install call, no Uninstall call, the trust stores unchanged),
\* and every call of the release function returns nil.
C11_NoCertTouchesNoTrustStore ==
    conf.noCert =>
        /\ installs = 0
        /\ uninstalls = 0
        /\ store = {}
        /\ cleanup \in { "none", "noop" }
        /\ \A i \in 1..Len(releases) : releases[i] = FALSE

\* C11 witness: a noCert run that served requests, was signalled, invoked
\* the release function and returned.
C11_Witness ==
    /\ conf.noCert
    /\ pc = "returned"
    /\ handled > 0
    /\ Len(releases) = 1
    /\ cleanup = "noop"

(***************************************************************************)
(* Properties of the session check and of the minted token.                *)
(***************************************************************************)
\* The session-check request of the current exchange has been built.
SessionCheckSent == whoami # << >>

\* C12: the session-check request sent to the identity provider carries
\* the Cookie, Authorization, X-Session-Token and X-Request-Id values as
\* the caller sent them (the caller's Authorization value too, although it
\* is removed from the delegated request), Accept: application/json, and
\* no other header of the inbound request.
C12_SessionCheckHeaders ==
    SessionCheckSent =>
        LET h == Head(whoami).header
        IN  /\ DOMAIN h = { "Cookie", "Authorization", "XSessionToken",
                            "XRequestId", "Accept" }
            /\ Len(h.Cookie) = 1
            /\ Len(h.Authorization) = 1
            /\ Len(h.XSessionToken) = 1
            /\ Len(h.XRequestId) = 1
            /\ h.Cookie[1] = HeaderGet(inbound.header.Cookie, "")
            /\ h.Authorization[1] =
                   HeaderGet(inbound.header.Authorization, EmptyCred)
            /\ h.XSessionToken[1] = HeaderGet(inbound.header.XSessionToken, "")
            /\ h.XRequestId[1] = HeaderGet(inbound.header.XRequestId, "")
            /\ h.Accept = << "application/json" >>

\* C12 witness: the caller sent all four credentials and one more header;
\* the request was delegated without the caller's Authorization, which the
\* session check had carried.
C12_Witness ==
    /\ SessionCheckSent
    /\ Delegated
    /\ inbound.header.Authorization = << Bearer(ForgedToken(endpoint)) >>
    /\ inbound.header.Cookie # << >>
    /\ inbound.header.XSessionToken # << >>
    /\ inbound.header.XRequestId # << >>
    /\ inbound.header.XOther # << >>
    /\ Head(delegated).header.Authorization = << >>
    /\ Head(whoami).header.Authorization = inbound.header.Authorization

\* The token of the delegated request in the state reached by a step.
MintedToken == Head(delegated).header.Authorization[1].cred

\* C13: every minting step stamps the token with the clock value of that
\* step as issued-at and not-before and with exactly one minute more as
\* expiry, and gives it a token id that no token handed out before carries:
\* each qualifying request gets a token of its own, none is handed out
\* twice.
C13_FreshTokenPerRequest ==
    [][ minted' # minted =>
          /\ minted' = minted + 1
          /\ Len(delegated') = 1
          /\ MintedToken'.iat = now
          /\ MintedToken'.nbf = now
          /\ MintedToken'.exp = now + Minute
          /\ MintedToken'.jti \notin issued
          /\ issued' = issued \cup { MintedToken'.jti }
          /\ Cardinality(issued') = minted' ]_vars

\* C13 witness: the second token of the behaviour, minted after the clock
\* advanced, with its own id and with the times of its own minting.
C13_Witness ==
    /\ Delegated
    /\ ActiveSession
    /\ minted = 2
    /\ issued = { 1, 2 }
    /\ now = MaxClock
    /\ MintedToken.jti = 2
    /\ MintedToken.iat = MaxClock
    /\ MintedToken.nbf = MaxClock
    /\ MintedToken.exp = MaxClock + Minute

(***************************************************************************)
(* Properties of the handler's branches.                                   *)
(***************************************************************************)
\* What each branch of the handler leaves behind.
KeySetWritten == w.body.kind = "jwks"
FlowRedirected == w.body.kind = "redirect" /\ w.status = StatusSeeOther
ForwardedToOry == forwarded # << >>
BranchesTaken ==
    { b \in { "keys", "init", "ory", "app" } :
        \/ b = "keys" /\ KeySetWritten
        \/ b = "init" /\ FlowRedirected
        \/ b = "ory" /\ ForwardedToOry
        \/ b = "app" /\ SessionCheckSent }

\* C14: every request the handler has taken is handled by exactly one of
\* the four branches (key set written, 303 flow redirect, forwarded to the
\* identity provider, session check); the session-check branch ends in a
\* delegation or in the signing-error response; a request of the other three
\* branches has no session check, is not delegated and carries no token
\* (its headers are the caller's); the first two branches answer at once.
C14_BranchesExclusiveAndExhaustive ==
    phase # "idle" =>
        /\ Cardinality(BranchesTaken) = 1
        /\ BranchesTaken = { branch }
        /\ branch \in { "keys", "init", "ory" } =>
              /\ whoami = << >>
              /\ session = << >>
              /\ delegated = << >>
              /\ r.header = inbound.header
        /\ branch \in { "keys", "init" } => phase = "done"
        /\ (branch = "app" /\ phase = "done") =>
              \/ Len(delegated) = 1
              \/ /\ delegated = << >>
                 /\ w.status = StatusInternalServerError
                 /\ w.body.kind = "error"

\* C14 witness: a pass-through request whose caller sent an Authorization
\* header, completed after a token had been minted for an earlier request.
C14_Witness ==
    /\ phase = "done"
    /\ branch = "ory"
    /\ upRes # << >>
    /\ minted = 1
    /\ inbound.header.Authorization # << >>
    /\ inbound.header.Cookie # << >>

\* s with its first occurrence of old replaced by new (s itself when old
\* does not occur).
RECURSIVE ReplaceFirst(_, _, _)
ReplaceFirst(s, old, new) ==
    IF s = << >> THEN << >>
    ELSE IF HasPrefix(s, old) THEN new \o SubSeq(s, Len(old) + 1, Len(s))
    ELSE << Head(s) >> \o ReplaceFirst(Tail(s), old, new)

\* C15 as claimed: the path forwarded to the identity provider is the
\* inbound path with exactly one occurrence of the segment "/.ory/" removed
\* (replaced by "/"), later occurrences kept; the path "/.ory" is handled by
\* the pass-through branch too.
C15_OneOccurrenceRemoved ==
    /\ ForwardedToOry =>
          Head(forwarded).path = ReplaceFirst(inbound.path, OrySegment, Slash)
    /\ (phase # "idle" /\ inbound.path = OryPrefix) => branch = "ory"

\* The middleware itself has written nothing but the HSTS header.
NothingWrittenByMiddleware == w = setHSTS(NoResponse)
\* The response is the application's, or the reverse proxy's 502.
AnsweredByApplication ==
    \/ upRes # << >> /\ w = copyResponse(setHSTS(NoResponse), Head(upRes))
    \/ upRes = << >> /\ w = badGateway(setHSTS(NoResponse))

\* C16: once the session check of an application-traffic request has
\* returned, either the request is delegated, once, and the middleware
\* writes no response of its own (the response is the application's), or
\* the session is active, the request is not delegated and the caller has
\* the internal-server-error response (signing failed); without an active
\* session the request is always delegated.
C16_FailClosedOnlyOnSigningFailure ==
    (branch = "app" /\ session # << >>) =>
        /\ \/ /\ Len(delegated) = 1
              /\ phase = "app" => NothingWrittenByMiddleware
              /\ phase = "done" => AnsweredByApplication
           \/ /\ delegated = << >>
              /\ ActiveSession
              /\ phase = "done"
              /\ upRes = << >>
              /\ w = [ setHSTS(NoResponse) EXCEPT
                         !.status = StatusInternalServerError,
                         !.body = [ kind |-> "error", keys |-> << >> ] ]
        /\ NoActiveSession => Len(delegated) = 1

\* C16 witness: an active session whose token could not be signed.
C16_Witness ==
    /\ branch = "app"
    /\ ActiveSession
    /\ phase = "done"
    /\ delegated = << >>
    /\ w.status = StatusInternalServerError
    /\ r.header.Authorization = << >>

\* A request without its Authorization header.
WithoutAuthorization(req) == [ req EXCEPT !.header.Authorization = << >> ]

\* C17: the request delegated to the application equals the inbound
\* request in method, path, query, Host and every header other than
\* Authorization, with or without a token.
C17_OnlyAuthorizationChanges ==
    Delegated =>
        /\ Len(delegated) = 1
        /\ Head(delegated).method = inbound.method
        /\ Head(delegated).path = inbound.path
        /\ Head(delegated).query = inbound.query
        /\ Head(delegated).host = inbound.host
        /\ WithoutAuthorization(Head(delegated)) = WithoutAuthorization(inbound)

\* C17 witness: a request with a query string and all headers, delegated
\* with a minted token in place of the caller's Authorization.
C17_Witness ==
    /\ Delegated
    /\ ActiveSession
    /\ inbound.query # {}
    /\ inbound.path = << "/", "a", "/", ".ory", "/", "b" >>
    /\ inbound.header.Cookie # << >>
    /\ inbound.header.XOther # << >>
    /\ inbound.header.XRequestId # << >>
    /\ inbound.header.Authorization # << >>
    /\ Head(delegated).header.Authorization # inbound.header.Authorization

(***************************************************************************)
(* Properties of run's start-up.                                           *)
(***************************************************************************)
\* The server accepts or has accepted connections.
Accepting ==
    \/ pc \in { "serving", "draining", "returned" }
    \/ inflight # {}
    \/ handled > 0

\* C18: the certificate and the signing keys exist before the server
\* accepts its first connection, and once created neither is created again
\* or changed: every request of the process is served with the same
\* certificate, the same signing key and the same public key set.
C18_CertificateAndSignerCreatedOnce ==
    /\ [](Accepting => (cert # NoCertificate /\ keys # << >>))
    /\ [][ /\ cert # NoCertificate => cert' = cert
           /\ keys # << >> =>
                 /\ keys' = keys
                 /\ publicKeys(keys') = publicKeys(keys)
           /\ (cert' # cert \/ keys' # keys) =>
                 (~Accepting /\ inflight' = {} /\ handled' = 0) ]_vars

\* C18 witness: a request served, another still in flight at shutdown, with
\* the certificate and the keys of the second generation.
C18_Witness ==
    /\ pc = "draining"
    /\ handled >= 1
    /\ inflight # {}
    /\ cert = "cert-2"
    /\ keys \in GeneratedKeySets \ KeySets

EndedWithoutServing == ~signalled /\ pc \in { "failed", "fatal" }
\* truststore.Install succeeded: the certificate is in the trust stores and
\* the release function is the one that removes it.
CertificateInstalled == cleanup = "uninstall"

\* C20 as claimed: when run ends without having served, the certificate was
\* never installed into the trust stores or the release function has been
\* invoked.
C20_FailedStartupLeavesNothingInstalled ==
    EndedWithoutServing => (~CertificateInstalled \/ Len(releases) >= 1)

=============================================================================
